---- MODULE Spec2Model ----
(***************************************************************************)
(* Lazily loaded hierarchy trees of visual-db-order-lookup.                *)
(*                                                                         *)
(* Two tree widgets are modelled, each with the services it calls:         *)
(*   - WorkOrderTreeWidget (ui/engineering/work_order_tree_widget.py),     *)
(*     which loads the children of an expanded item synchronously in the   *)
(*     itemExpanded slot;                                                  *)
(*   - BOMTreeView + EngineeringModuleWidget (ui/bom_tree_view.py,         *)
(*     ui/engineering_module.py), which load them through a DatabaseWorker *)
(*     on a QThread and attach them when the worker's signal arrives.      *)
(* The variable `widget` says which of the two a behaviour drives; the     *)
(* two share no state.  A third kind of behaviour calls WorkOrderService   *)
(* on its own ("WorkOrderService").                                        *)
(***************************************************************************)
EXTENDS Naturals, Sequences, FiniteSets, TLC

VARIABLES
    widget,             \* the component a behaviour drives: "WorkOrderTreeWidget" |
                        \* "BOMTreeView" | "WorkOrderService" | "MainWindow" |
                        \* "DatabaseConnection"
    \* ---- WorkOrderTreeWidget
    detailed_view,      \* WorkOrderTreeWidget.detailed_view
    wo_db,              \* the data set behind WorkOrderService (never changes)
    items,              \* the QTreeWidget's items: path -> item record
    last_call,          \* what the last slot invocation did (observation)
    hierarchy,          \* the last service call, when it was get_work_order_hierarchy
    service_call,       \* the last service call, when it was another loader
    \* ---- BOMTreeView + EngineeringModuleWidget
    current_job_number, \* EngineeringModuleWidget.current_job_number ("" = None)
    node_data,          \* BOMTreeView.node_data in insertion order: item -> BOMNode
    tree_epoch,         \* flips whenever clear_tree() empties the tree (observation)
    workers,            \* the DatabaseWorker/QThread pairs not yet cleaned up
    worker,             \* EngineeringModuleWidget.worker (0 = None)
    worker_thread,      \* EngineeringModuleWidget.worker_thread (0 = None)
    event_queue,        \* queued signals waiting in the GUI thread's event loop
    expand_all_enabled, \* expand_all_btn.isEnabled()
    aborted,            \* the process was terminated by Qt
    \* ---- MainWindow navigation
    current_row,        \* navigation_panel.currentRow()
    current_index,      \* module_stack.currentIndex()
    requested_index,    \* the index last asked for by a click or a call (observation)
    \* ---- DatabaseConnection shared by the threads
    connection,         \* DatabaseConnection._connection (0 = None)
    connections,        \* the pyodbc connections opened so far: id -> "alive" |
                        \* "dead" (lost, not closed) | "closed"
    db_threads          \* where each thread is inside get_cursor/connect

woVars == <<detailed_view, wo_db, items, last_call, hierarchy, service_call>>
bomVars == <<current_job_number, node_data, tree_epoch, workers, worker,
             worker_thread, event_queue, expand_all_enabled, aborted>>
appVars == <<current_row, current_index, requested_index, connection, connections,
             db_threads>>
vars == <<widget, detailed_view, wo_db, items, last_call, hierarchy, service_call,
          current_job_number, node_data, tree_epoch, workers, worker,
          worker_thread, event_queue, expand_all_enabled, aborted,
          current_row, current_index, requested_index, connection, connections,
          db_threads>>

(***************************************************************************)
(* Bounds                                                                  *)
(***************************************************************************)
\* service errors injected per tree item
MaxFailures == 2
\* deepest item of the work-order tree that may still be expanded
MaxWODepth == 3
\* items of the BOM tree up to which the user may still expand one
MaxItems == 5
\* largest max_depth passed to get_work_order_hierarchy
MaxMaxDepth == 3
\* pyodbc connections opened in one behaviour
MaxConnections == 3
\* nested calls of _load_hierarchy_recursive the interpreter's recursion limit
\* leaves room for
RecursionLimit == 4

(***************************************************************************)
(* Sequence helpers                                                        *)
(***************************************************************************)
Range(s) == {s[i] : i \in 1..Len(s)}

RECURSIVE RemoveFirst(_, _)
\* list.remove / QTreeWidgetItem.removeChild: drop the first occurrence of x
RemoveFirst(s, x) ==
    IF s = <<>> THEN <<>>
    ELSE IF Head(s) = x THEN Tail(s)
    ELSE <<Head(s)>> \o RemoveFirst(Tail(s), x)

(***************************************************************************)
(* The work-order data: REQUIREMENT rows by WORKORDER_SUB_ID, in the       *)
(* query's ORDER BY order, and the number of OPERATION rows by sub id.     *)
(* A requirement row keeps its PIECE_NO and its SUBORD_WO_SUB_ID ("" when  *)
(* the column is NULL or empty).  The operations of a work order have the  *)
(* SEQUENCE_NO 1, 2, ...  In the data set "cycle" the work orders 0 and 1  *)
(* refer to each other and work order 10 refers to work order 1.           *)
(***************************************************************************)
SubIds == {"0", "1", "10"}

Req(piece, subord) == [piece_no |-> piece, subord_wo_sub_id |-> subord]

WODataSets ==
    { [ name |-> "tree",
        requirements |-> [s \in SubIds |->
            CASE s = "0" -> <<Req(1, "1"), Req(2, ""), Req(3, "10")>>
              [] s = "1" -> <<Req(1, "10")>>
              [] OTHER   -> <<Req(1, "")>>],
        operations |-> [s \in SubIds |-> IF s = "0" THEN 2 ELSE IF s = "1" THEN 1 ELSE 0] ],
      [ name |-> "cycle",
        requirements |-> [s \in SubIds |->
            CASE s = "0" -> <<Req(1, "1")>>
              [] s = "1" -> <<Req(1, "0")>>
              [] OTHER   -> <<Req(1, "1")>>],
        operations |-> [s \in SubIds |-> 0] ] }

(***************************************************************************)
(* WorkOrderService: a query either returns its rows or the cursor raises  *)
(* pyodbc.Error (fault = TRUE), which the service re-raises as             *)
(* WorkOrderServiceError.                                                  *)
(***************************************************************************)
Returned(rows) == [raised |-> "none", rows |-> rows]
Raised(exc) == [raised |-> exc, rows |-> <<>>]

\* WHERE WORKORDER_SUB_ID = ? matches no row for a sub id the table lacks.
get_requirements_by_sub_id(db, sub_id, fault) ==
    IF fault THEN Raised("WorkOrderServiceError")
    ELSE IF sub_id \in DOMAIN db.requirements THEN Returned(db.requirements[sub_id])
    ELSE Returned(<<>>)

\* work_order_queries.get_operations builds Operation(operation_type=...,
\* run_type=..., calc_start_qty=..., close_date=..., notes=...) for every row,
\* keywords the Operation dataclass does not declare: with at least one row the
\* call raises TypeError, which is no pyodbc.Error and passes through the
\* service unchanged.
get_operations(db, sub_id, fault) ==
    IF fault THEN Raised("WorkOrderServiceError")
    ELSE IF db.operations[sub_id] > 0 THEN Raised("TypeError")
    ELSE Returned(<<>>)

has_child_work_order(req) == req.subord_wo_sub_id # ""

\* The exception object the service raises for a pyodbc.Error e (lines
\* 252-255): WorkOrderServiceError(error_msg) from e, a message text with the
\* driver's text in it and e as its cause.
WorkOrderServiceError(e) ==
    [type |-> "WorkOrderServiceError",
     message |-> <<"Database error loading requirements by SUB_ID", e>>,
     cause |-> e]

\* the largest max_depth WorkOrderService.get_work_order_hierarchy accepts
MaxDepthCeiling == 50

\* sort_order_1, sort_order_2 of row a come before those of row b
SortOrderBefore(a, b) ==
    \/ a.sort_order_1 < b.sort_order_1
    \/ a.sort_order_1 = b.sort_order_1 /\ a.sort_order_2 < b.sort_order_2

RECURSIVE OrderBySortOrder(_)
\* ORDER BY sort_order_1, sort_order_2
OrderBySortOrder(rows) ==
    IF rows = <<>> THEN <<>>
    ELSE LET least == {i \in 1..Len(rows) :
                          \A j \in 1..Len(rows) : ~SortOrderBefore(rows[j], rows[i])}
             first == CHOOSE i \in least : \A j \in least : i <= j
         IN <<rows[first]>> \o
            OrderBySortOrder([k \in 1..(Len(rows) - 1) |->
                                 IF k < first THEN rows[k] ELSE rows[k + 1]])

\* work_order_queries.get_operation_children for the requirements of a work
\* order: its REQUIREMENT rows (sort_order_2 = 0) UNION ALL one
\* CHILD_OPERATION row per operation of every referenced sub-work-order
\* (sort_order_2 = SEQUENCE_NO), ordered by sort_order_1, sort_order_2.
get_operation_children(db, sub_id) ==
    LET reqs == db.requirements[sub_id]
        requirement(r) ==
            [item_type |-> "REQUIREMENT", sort_order_1 |-> r.piece_no, sort_order_2 |-> 0,
             subord_wo_sub_id |-> r.subord_wo_sub_id]
        child_operations(r) ==
            IF has_child_work_order(r)
            THEN [k \in 1..db.operations[r.subord_wo_sub_id] |->
                     [item_type |-> "CHILD_OPERATION", sort_order_1 |-> r.piece_no,
                      sort_order_2 |-> k, subord_wo_sub_id |-> r.subord_wo_sub_id]]
            ELSE <<>>
        RECURSIVE joined(_)
        joined(i) == IF i > Len(reqs) THEN <<>> ELSE child_operations(reqs[i]) \o joined(i + 1)
    IN OrderBySortOrder([i \in 1..Len(reqs) |-> requirement(reqs[i])] \o joined(1))

(***************************************************************************)
(* work_order_queries.get_work_order_hierarchy: the recursive CTE          *)
(* WorkOrderHierarchy over WORK_ORDER and REQUIREMENT.  Every sub id of    *)
(* SubIds is a WORK_ORDER row of base id 'B' and lot id 'L'.  Texts are    *)
(* sequences of characters, so that LIKE and ORDER BY work on them as they *)
(* do on the VARCHAR path column (which no path of these data sets         *)
(* overflows).                                                             *)
(***************************************************************************)
\* the characters of a SUB_ID
SUB_ID_text == [s \in SubIds |-> IF s = "10" THEN <<"1", "0">> ELSE <<s>>]

\* wo.BASE_ID + '/' + wo.LOT_ID + '/' + wo.SUB_ID
KeyText(sub_id) == <<"B", "/", "L", "/">> \o SUB_ID_text[sub_id]

\* path LIKE '%' + key + '%': key occurs somewhere in path
Like(path, key) ==
    \E i \in 1..(Len(path) + 1) :
        /\ i + Len(key) - 1 <= Len(path)
        /\ SubSeq(path, i, i + Len(key) - 1) = key

\* the character codes ORDER BY compares
CharCode ==
    [c \in {" ", "-", "/", "0", "1", "2", ">", "B", "L"} |->
        CASE c = " " -> 32 [] c = "-" -> 45 [] c = "/" -> 47 [] c = "0" -> 48
          [] c = "1" -> 49 [] c = "2" -> 50 [] c = ">" -> 62 [] c = "B" -> 66
          [] OTHER -> 76]

RECURSIVE PathBefore(_, _)
\* a sorts strictly before b
PathBefore(a, b) ==
    IF b = <<>> THEN FALSE
    ELSE IF a = <<>> THEN TRUE
    ELSE IF Head(a) # Head(b) THEN CharCode[Head(a)] < CharCode[Head(b)]
    ELSE PathBefore(Tail(a), Tail(b))

RECURSIVE OrderByPath(_)
\* ORDER BY path: the first of the smallest rows, then the others in order
OrderByPath(rows) ==
    IF rows = <<>> THEN <<>>
    ELSE LET least == {i \in 1..Len(rows) :
                          \A j \in 1..Len(rows) : ~PathBefore(rows[j].path, rows[i].path)}
             first == CHOOSE i \in least : \A j \in least : i <= j
         IN <<rows[first]>> \o
            OrderByPath([k \in 1..(Len(rows) - 1) |->
                            IF k < first THEN rows[k] ELSE rows[k + 1]])

HierarchyRow(sub_id, depth, path) == [sub_id |-> sub_id, depth |-> depth, path |-> path]

\* a variant of the recursive member whose WHERE clause reads woh.depth <= ?
RecursiveMemberOneDeeper(db, woh, max_depth) ==
    LET reqs == SelectSeq(db.requirements[woh.sub_id],
                  LAMBDA req : /\ has_child_work_order(req)
                               /\ woh.depth <= max_depth
                               /\ ~Like(woh.path, KeyText(req.subord_wo_sub_id)))
    IN [i \in 1..Len(reqs) |->
          HierarchyRow(reqs[i].subord_wo_sub_id, woh.depth + 1,
                       woh.path \o <<" ", "-", ">", " ">>
                                \o KeyText(reqs[i].subord_wo_sub_id))]

\* The recursive member for one row woh of the CTE: the work orders that a
\* requirement of woh references, WHERE woh.depth < ? AND woh.path NOT LIKE
\* the candidate's key.
RecursiveMember(db, woh, max_depth) ==
    LET reqs == SelectSeq(db.requirements[woh.sub_id],
                  LAMBDA req : /\ has_child_work_order(req)
                               /\ woh.depth < max_depth
                               /\ ~Like(woh.path, KeyText(req.subord_wo_sub_id)))
    IN [i \in 1..Len(reqs) |->
          HierarchyRow(reqs[i].subord_wo_sub_id, woh.depth + 1,
                       woh.path \o <<" ", "-", ">", " ">>
                                \o KeyText(reqs[i].subord_wo_sub_id))]

RECURSIVE WorkOrderHierarchy(_, _, _)
\* the rows of the CTE that descend from the rows `level`, these included
WorkOrderHierarchy(db, level, max_depth) ==
    IF level = <<>> THEN <<>>
    ELSE LET RECURSIVE joined(_)
             joined(i) == IF i > Len(level) THEN <<>>
                          ELSE RecursiveMember(db, level[i], max_depth) \o joined(i + 1)
         IN level \o WorkOrderHierarchy(db, joined(1), max_depth)

\* the rows the query fetches, in ORDER BY path order
work_order_hierarchy_rows(db, sub_id, max_depth) ==
    OrderByPath(WorkOrderHierarchy(db, <<HierarchyRow(sub_id, 0, KeyText(sub_id))>>,
                                   max_depth))

\* a variant of the validation that checks max_depth >= 1 only
get_work_order_hierarchyNoCeiling(db, sub_id, max_depth, fault) ==
    IF max_depth < 1 THEN Raised("ValueError")
    ELSE IF fault THEN Raised("WorkOrderServiceError")
    ELSE LET rows == work_order_hierarchy_rows(db, sub_id, max_depth)
         IN Returned([i \in 1..Len(rows) |-> [sub_id |-> rows[i].sub_id]])

\* WorkOrderService.get_work_order_hierarchy: the list of WorkOrder objects
\* built from the rows (a WorkOrder has no depth and no path).
get_work_order_hierarchy(db, sub_id, max_depth, fault) ==
    IF max_depth < 1 \/ max_depth > MaxDepthCeiling THEN Raised("ValueError")
    ELSE IF fault THEN Raised("WorkOrderServiceError")
    ELSE LET rows == work_order_hierarchy_rows(db, sub_id, max_depth)
         IN Returned([i \in 1..Len(rows) |-> [sub_id |-> rows[i].sub_id]])

(***************************************************************************)
(* Tree items.  An item that carries TreeNodeData is an entry of `items`,  *)
(* keyed by its path from the root item (<<>>); a text-only item           *)
(* ("Loading...", "Error: ...") is only an entry of its parent's children. *)
(***************************************************************************)
TreeNodeData(node_type, sub_id) ==
    [node_type |-> node_type, sub_id |-> sub_id, children_loaded |-> FALSE,
     children |-> <<>>, indicator |-> FALSE, issued |-> 0]

DataChild(path) == [text |-> "item", ref |-> path]
LoadingItem == [text |-> "Loading...", ref |-> <<>>]
ErrorItem == [text |-> "Error", ref |-> <<>>]

AddChild(tree, p, entry) == [tree EXCEPT ![p].children = Append(@, entry)]
RemoveChild(tree, p, entry) == [tree EXCEPT ![p].children = RemoveFirst(@, entry)]

ErrorChildren(item) == SelectSeq(item.children, LAMBDA e : e = ErrorItem)
DataChildren(item) == SelectSeq(item.children, LAMBDA e : e.text = "item")

\* The sub-work-order rows of a result, in result order.
\* a variant of the filter of line 226 that keeps every requirement row
AllRequirementRows(rows) == rows

\* line 226: the requirement rows shown are those with a child work order
SubWorkOrders(rows) == SelectSeq(rows, has_child_work_order)

\* a variant of the loop of lines 233-276 without the try/except around the
\* probe query: the items before the first row whose probe raises are added
AddItemsUntilProbeFails(tree, db, p, subs, probe_faults) ==
    LET failing == {i \in 1..Len(subs) : subs[i].subord_wo_sub_id \in probe_faults}
        n == IF failing = {} THEN Len(subs)
             ELSE (CHOOSE i \in failing : \A j \in failing : i <= j) - 1
    IN [q \in DOMAIN tree \cup {Append(p, i) : i \in 1..n} |->
            IF q \in DOMAIN tree /\ q # p THEN tree[q]
            ELSE IF q = p
                 THEN [tree[p] EXCEPT !.children =
                          @ \o [i \in 1..n |-> DataChild(Append(p, i))]]
                 ELSE TreeNodeData("SUB_WORK_ORDER", subs[q[Len(q)]].subord_wo_sub_id)]

\* _load_all_requirements, lines 233-276: one SUB_WORK_ORDER item per
\* sub-work-order row, appended in row order; each gets the expand indicator
\* when the probe query finds child sub-work-orders or fails (probe_faults:
\* the sub ids whose probe raises).
AddSubWorkOrderItems(tree, db, p, subs, probe_faults) ==
    LET new == {Append(p, i) : i \in 1..Len(subs)}
        child(i) ==
            LET sub == subs[i].subord_wo_sub_id
                child_requirements == get_requirements_by_sub_id(db, sub, sub \in probe_faults)
                has_children ==
                    \E j \in 1..Len(child_requirements.rows) :
                        has_child_work_order(child_requirements.rows[j])
            IN [TreeNodeData("SUB_WORK_ORDER", sub) EXCEPT
                    !.indicator = (child_requirements.raised # "none") \/ has_children]
    IN [q \in DOMAIN tree \cup new |->
            IF q \in new THEN child(q[Len(q)])
            ELSE IF q = p
                 THEN [tree[p] EXCEPT !.children =
                          @ \o [i \in 1..Len(subs) |-> DataChild(Append(p, i))]]
                 ELSE tree[q]]

\* _load_all_requirements: the items after the call and what it raised.
load_all_requirements(tree, db, p, fault, probe_faults) ==
    LET requirements == get_requirements_by_sub_id(db, tree[p].sub_id, fault)
        sub_work_orders == SubWorkOrders(requirements.rows)
    IN IF requirements.raised # "none"
       THEN [raised |-> requirements.raised, items |-> tree, calls |-> 1]
       ELSE IF sub_work_orders = <<>>
       THEN [raised |-> "none", calls |-> 1,
             items |-> [tree EXCEPT ![p].indicator = FALSE]]
       ELSE [raised |-> "none", calls |-> 1 + Len(sub_work_orders),
             items |-> AddSubWorkOrderItems(tree, db, p, sub_work_orders, probe_faults)]

\* _load_operations: with the source's Operation dataclass the call returns
\* only for a work order without operations, and then adds nothing.
load_operations(tree, db, p, fault) ==
    LET operations == get_operations(db, tree[p].sub_id, fault)
    IN IF operations.raised # "none"
       THEN [raised |-> operations.raised, items |-> tree, calls |-> 1]
       ELSE [raised |-> "none", calls |-> 1,
             items |-> [tree EXCEPT ![p].indicator = FALSE]]

\* _load_requirements calls self.service.get_operation_children, a method
\* WorkOrderService does not define: the call raises AttributeError before
\* any query is made.
load_requirements(tree, db, p) ==
    [raised |-> "AttributeError", items |-> tree, calls |-> 0]

\* The loader _on_item_expanded picks for the item's node type (lines 172-189).
LoadChildren(tree, db, detailed, p, fault, probe_faults) ==
    IF tree[p].node_type = "OPERATION" THEN load_requirements(tree, db, p)
    ELSE IF detailed THEN load_operations(tree, db, p, fault)
    ELSE load_all_requirements(tree, db, p, fault, probe_faults)

\* a variant without the guard of line 160
NeverLoaded(item) == FALSE

\* Line 160: an item whose children are loaded is left alone.
AlreadyLoaded(item) == item.children_loaded

\* a variant of the except clause that also marks the item loaded
OnServiceErrorMarksLoaded(tree, p) ==
    [AddChild(tree, p, ErrorItem) EXCEPT ![p].children_loaded = TRUE]

\* Lines 194-199: what the except clause does with the items.
OnServiceError(tree, p) == AddChild(tree, p, ErrorItem)

\* _on_item_expanded as a whole: the items after the slot returns (or
\* unwinds), the exception it saw, and the service calls it made.
on_item_expanded(tree, db, detailed, p, fault, probe_faults) ==
    IF AlreadyLoaded(tree[p])
    THEN [items |-> tree, raised |-> "none", calls |-> 0, loaded_before |-> TRUE]
    ELSE
      LET shown == AddChild(tree, p, LoadingItem)
          load == LoadChildren(shown, db, detailed, p, fault, probe_faults)
          after ==
              CASE load.raised = "none" ->
                     [load.items EXCEPT ![p].children_loaded = TRUE]
                [] load.raised = "WorkOrderServiceError" ->
                     OnServiceError(load.items, p)
                [] OTHER -> load.items
          done == RemoveChild(after, p, LoadingItem)
      IN [items |-> [done EXCEPT ![p].issued = @ + 1],
          raised |-> load.raised, calls |-> load.calls, loaded_before |-> FALSE]

\* Qt lets the user expand an item that has children or shows the indicator.
Expandable(item) == item.indicator \/ item.children # <<>>

(***************************************************************************)
(* MainWindow navigation: NavigationPanel (a QListWidget with the rows     *)
(* Sales, Inventory, Engineering) and the QStackedWidget module_stack;     *)
(* currentRowChanged is connected to module_stack.setCurrentIndex.         *)
(***************************************************************************)
ModuleCount == 3

\* a variant of set_module_index without the range check: setCurrentRow with
\* a row the list lacks leaves no current row (-1)
set_module_indexUnchecked(row, index) ==
    IF 0 <= index /\ index < ModuleCount THEN index ELSE 0 - 1

\* NavigationPanel.set_module_index: the current row after the call
set_module_index(row, index) ==
    IF 0 <= index /\ index < ModuleCount THEN index ELSE row

\* QStackedWidget.setCurrentIndex as the slot of currentRowChanged: the signal
\* is emitted when the row changed, and an index without a widget is ignored
setCurrentIndex(stack_index, old_row, new_row) ==
    IF new_row # old_row /\ 0 <= new_row /\ new_row < ModuleCount THEN new_row
    ELSE stack_index

(***************************************************************************)
(* DatabaseConnection: get_cursor and connect as the steps of a thread.    *)
(* No lock is taken; a thread may be suspended between any two steps.      *)
(***************************************************************************)
DbThreads == {1, 2}

\* _is_connection_alive: SELECT 1 on the current connection succeeds
is_connection_alive == connection # 0 /\ connections[connection] = "alive"

InitApp ==
    /\ current_row = 0
    /\ current_index = 0
    /\ requested_index = 0
    /\ connection = 0
    /\ connections = <<>>
    /\ db_threads = [t \in DbThreads |-> [pc |-> "idle", new |-> 0]]

NoCall == [op |-> "none", node |-> <<>>, raised |-> "none", calls |-> 0,
           loaded_before |-> FALSE]

NoHierarchy ==
    [sub_id |-> "", given |-> FALSE, max_depth |-> 0, result |-> Returned(<<>>),
     rows |-> <<>>, queries |-> 0]

\* no loader was called directly yet
NoServiceCall ==
    [operation |-> "none", job_number |-> "", lot_id |-> "", sub_id |-> "",
     result |-> Returned(<<>>), queries |-> 0]

\* The queries a service call issued: its validation raises ValueError before
\* the try block that runs the query.
queries_issued(result) == IF result.raised = "ValueError" THEN 0 ELSE 1

\* A load of an item may fail while fewer than MaxFailures loads of it were made.
MayFail(tree, p) == tree[p].issued < MaxFailures

InitWO ==
    /\ widget = "WorkOrderTreeWidget"
    /\ detailed_view \in BOOLEAN
    /\ wo_db \in WODataSets
    /\ items = <<>>
    /\ last_call = NoCall
    /\ hierarchy = NoHierarchy
    /\ service_call = NoServiceCall
    /\ InitApp
    /\ current_job_number = ""
    /\ node_data = <<>>
    /\ tree_epoch = 0
    /\ workers = <<>>
    /\ worker = 0
    /\ worker_thread = 0
    /\ event_queue = <<>>
    /\ expand_all_enabled = FALSE
    /\ aborted = FALSE

\* load_work_order: clear the tree, create the root item with
\* ShowIndicator, and expand it, which runs the slot on the root.
load_work_order(root_sub, fault, probe_faults) ==
    /\ widget = "WorkOrderTreeWidget"
    /\ LET header == [TreeNodeData("WORK_ORDER_ROOT", root_sub) EXCEPT !.indicator = TRUE]
           fresh == [p \in {<<>>} |-> header]
           r == on_item_expanded(fresh, wo_db, detailed_view, <<>>, fault, probe_faults)
       IN /\ items' = r.items
          /\ last_call' = [op |-> "load_work_order", node |-> <<>>, raised |-> r.raised,
                           calls |-> r.calls, loaded_before |-> FALSE]
    /\ UNCHANGED <<widget, detailed_view, wo_db, hierarchy, service_call>>
    /\ UNCHANGED bomVars
    /\ UNCHANGED appVars

\* The user expands item p: itemExpanded -> _on_item_expanded(p).
ExpandItem(p, fault, probe_faults) ==
    /\ widget = "WorkOrderTreeWidget"
    /\ p \in DOMAIN items
    /\ Expandable(items[p])
    /\ Len(p) < MaxWODepth
    /\ LET r == on_item_expanded(items, wo_db, detailed_view, p, fault, probe_faults)
       IN /\ r.raised # "none" => MayFail(items, p)
          /\ items' = r.items
          /\ last_call' = [op |-> "expand", node |-> p, raised |-> r.raised,
                           calls |-> r.calls, loaded_before |-> r.loaded_before]
    /\ UNCHANGED <<widget, detailed_view, wo_db, hierarchy, service_call>>
    /\ UNCHANGED bomVars
    /\ UNCHANGED appVars

RootSubIds == {"0", "1"}

\* A caller that gives no max_depth gets the default of the signature
\* (max_depth: int = 10).
DefaultMaxDepth == 10

\* the max_depth values callers pass: small ones, the ceiling and one above it
MaxDepthInputs == (0..MaxMaxDepth) \cup {MaxDepthCeiling, MaxDepthCeiling + 1}

\* WorkOrderService.get_requirements_by_sub_id called directly: the keys are
\* checked against None only, then stripped and passed to the query.
call_get_requirements_by_sub_id(sub_id, fault) ==
    /\ widget = "WorkOrderService"
    /\ LET result == get_requirements_by_sub_id(wo_db, sub_id, fault)
       IN service_call' = [operation |-> "get_requirements_by_sub_id", job_number |-> "",
                           lot_id |-> "", sub_id |-> sub_id, result |-> result,
                           queries |-> queries_issued(result)]
    /\ hierarchy' = NoHierarchy
    /\ UNCHANGED <<widget, detailed_view, wo_db, items, last_call>>
    /\ UNCHANGED bomVars
    /\ UNCHANGED appVars

\* A caller of the service asks for the hierarchy of a work order.  Besides
\* the call and its result, `rows` keeps the rows the query fetched (empty
\* when it was not run).
call_get_work_order_hierarchy(sub_id, given, value, fault) ==
    /\ widget = "WorkOrderService"
    /\ LET max_depth == IF given THEN value ELSE DefaultMaxDepth
           result == get_work_order_hierarchy(wo_db, sub_id, max_depth, fault)
       IN hierarchy' = [sub_id |-> sub_id, given |-> given, max_depth |-> max_depth,
                        result |-> result,
                        rows |-> IF result.raised = "none"
                                 THEN work_order_hierarchy_rows(wo_db, sub_id, max_depth)
                                 ELSE <<>>,
                        queries |-> queries_issued(result)]
    /\ service_call' = NoServiceCall
    /\ UNCHANGED <<widget, detailed_view, wo_db, items, last_call>>
    /\ UNCHANGED bomVars
    /\ UNCHANGED appVars

NextWO ==
    \/ \E root_sub \in RootSubIds, fault \in BOOLEAN, probe_faults \in SUBSET SubIds :
          load_work_order(root_sub, fault, probe_faults)
    \/ \E p \in DOMAIN items, fault \in BOOLEAN, probe_faults \in SUBSET SubIds :
          ExpandItem(p, fault, probe_faults)

\* WorkOrderService used on its own (no widget of src/ calls
\* get_work_order_hierarchy).
InitService ==
    /\ widget = "WorkOrderService"
    /\ detailed_view = FALSE
    /\ wo_db \in WODataSets
    /\ items = <<>>
    /\ last_call = NoCall
    /\ hierarchy = NoHierarchy
    /\ service_call = NoServiceCall
    /\ InitApp
    /\ current_job_number = ""
    /\ node_data = <<>>
    /\ tree_epoch = 0
    /\ workers = <<>>
    /\ worker = 0
    /\ worker_thread = 0
    /\ event_queue = <<>>
    /\ expand_all_enabled = FALSE
    /\ aborted = FALSE

(***************************************************************************)
(* The BOM data: the WORK_ORDER rows of a job in ORDER BY SUB_ID order.    *)
(* base_lot_id "" stands for a NULL BASE_LOT_ID.  Job 8113 has two         *)
(* top-level work orders (LOT_ID '00'), two sub-assemblies below lot 00    *)
(* and one part below each of them; job 9999 has no work orders; in job    *)
(* 5150 the top-level work order has the BASE_LOT_ID of the work order     *)
(* below it (cyclic data).                                                 *)
(***************************************************************************)
Jobs == {"8113", "9999", "5150", "7000"}

WorkOrderRow(lot, sub, base_lot, purchased) ==
    [lot_id |-> lot, sub_id |-> sub, base_lot_id |-> base_lot, is_purchased |-> purchased]

WORK_ORDER ==
    [j \in Jobs |->
        IF j = "8113"
        THEN << WorkOrderRow("00", "1", "", FALSE),
                WorkOrderRow("00", "2", "", FALSE),
                WorkOrderRow("10", "3", "00", FALSE),
                WorkOrderRow("20", "4", "00", FALSE),
                WorkOrderRow("30", "5", "10", FALSE),
                WorkOrderRow("40", "6", "20", TRUE) >>
        ELSE IF j = "5150"
        THEN << WorkOrderRow("00", "1", "10", FALSE),
                WorkOrderRow("10", "2", "00", FALSE) >>
        ELSE IF j = "7000"
        THEN << WorkOrderRow("00", "1", "", FALSE) >>
        ELSE << >>]

(***************************************************************************)
(* BOMService.  db_connection.execute_query either returns the rows or     *)
(* raises (fault = TRUE); the service logs and re-raises.                  *)
(***************************************************************************)
\* WHERE wo.BASE_ID = ?: the rows of the job, none for a job the table lacks
WorkOrdersOf(job) == IF job \in Jobs THEN WORK_ORDER[job] ELSE <<>>

BOMNode(job, row, node_type, depth, is_loaded) ==
    [job_number |-> job, lot_id |-> row.lot_id, sub_id |-> row.sub_id,
     base_lot_id |-> row.base_lot_id, node_type |-> node_type,
     is_purchased |-> row.is_purchased, depth |-> depth, is_loaded |-> is_loaded]

is_assembly(node) == node.node_type = "assembly"

\* The has_children column: EXISTS a work order of the job whose BASE_LOT_ID
\* is this row's LOT_ID.
row_has_children(job, row) ==
    \E i \in 1..Len(WORK_ORDER[job]) : WORK_ORDER[job][i].base_lot_id = row.lot_id

\* display_color: the colour of a row by its node type
display_color(node) ==
    IF node.node_type = "assembly" THEN "blue"
    ELSE IF node.node_type = "purchased" THEN "red"
    ELSE "black"

\* a variant that classifies a top-level row by its children and flags
get_bom_assembliesByFlags(job, fault) ==
    IF job = "" THEN Raised("ValueError")
    ELSE IF fault THEN Raised("Exception")
    ELSE LET results == SelectSeq(WorkOrdersOf(job), LAMBDA r : r.lot_id = "00")
         IN Returned([i \in 1..Len(results) |->
                         BOMNode(job, results[i],
                                 IF row_has_children(job, results[i]) THEN "assembly"
                                 ELSE IF results[i].is_purchased THEN "purchased"
                                 ELSE "manufactured", 0, FALSE)])

get_bom_assemblies(job, fault) ==
    IF job = "" THEN Raised("ValueError")
    ELSE IF fault THEN Raised("Exception")
    ELSE LET results == SelectSeq(WorkOrdersOf(job), LAMBDA r : r.lot_id = "00")
         IN Returned([i \in 1..Len(results) |->
                         BOMNode(job, results[i], "assembly", 0, FALSE)])

\* a variant that creates every part as already loaded
get_assembly_partsLoaded(job, lot_id, fault) ==
    IF fault THEN Raised("Exception")
    ELSE LET results == SelectSeq(WorkOrdersOf(job),
                                  LAMBDA r : r.base_lot_id # "" /\ r.base_lot_id = lot_id)
             node(r) ==
                 BOMNode(job, r,
                         IF row_has_children(job, r) THEN "assembly"
                         ELSE IF r.is_purchased THEN "purchased" ELSE "manufactured",
                         1, TRUE)
         IN Returned([i \in 1..Len(results) |-> node(results[i])])

get_assembly_parts(job, lot_id, fault) ==
    IF fault THEN Raised("Exception")
    ELSE LET results == SelectSeq(WorkOrdersOf(job),
                                  LAMBDA r : r.base_lot_id # "" /\ r.base_lot_id = lot_id)
             node(r) ==
                 BOMNode(job, r,
                         IF row_has_children(job, r) THEN "assembly"
                         ELSE IF r.is_purchased THEN "purchased" ELSE "manufactured",
                         1, ~row_has_children(job, r))
         IN Returned([i \in 1..Len(results) |-> node(results[i])])

RECURSIVE load_hierarchy_recursive(_, _, _)
\* _load_hierarchy_recursive: the nodes it appends to all_nodes, or the
\* RecursionError the interpreter raises when the calls nest deeper than its
\* recursion limit (the call at depth d is the d-th nested one).
load_hierarchy_recursive(job, lot_id, depth) ==
    IF depth > RecursionLimit THEN Raised("RecursionError")
    ELSE
      LET parts == get_assembly_parts(job, lot_id, FALSE).rows
          below(part) ==
              IF is_assembly(part)
              THEN LET sub == load_hierarchy_recursive(job, part.lot_id, depth + 1)
                   IN IF sub.raised # "none" THEN sub
                      ELSE Returned(<<[part EXCEPT !.depth = depth]>> \o sub.rows)
              ELSE Returned(<<[part EXCEPT !.depth = depth]>>)
          RECURSIVE walk(_)
          walk(i) ==
              IF i > Len(parts) THEN Returned(<<>>)
              ELSE LET first == below(parts[i])
                   IN IF first.raised # "none" THEN first
                      ELSE LET rest == walk(i + 1)
                           IN IF rest.raised # "none" THEN rest
                              ELSE Returned(first.rows \o rest.rows)
      IN walk(1)

\* get_bom_hierarchy: any exception makes the whole call raise.
get_bom_hierarchy(job, fault) ==
    LET assemblies == get_bom_assemblies(job, fault)
        RECURSIVE walk(_)
        walk(i) ==
            IF i > Len(assemblies.rows) THEN Returned(<<>>)
            ELSE LET first == load_hierarchy_recursive(job, assemblies.rows[i].lot_id, 1)
                 IN IF first.raised # "none" THEN first
                    ELSE LET rest == walk(i + 1)
                         IN IF rest.raised # "none" THEN rest
                            ELSE Returned(first.rows \o rest.rows)
    IN IF assemblies.raised # "none" THEN assemblies
       ELSE IF walk(1).raised # "none" THEN walk(1)
       ELSE Returned(assemblies.rows \o walk(1).rows)

\* get_job_info: the Job of the header, or None (<<>>) when there is none.
get_job_info(job, fault) ==
    IF job = "" THEN Raised("ValueError")
    ELSE IF fault THEN Raised("Exception")
    ELSE Returned(IF WORK_ORDER[job] # <<>> THEN <<job>> ELSE <<>>)

(***************************************************************************)
(* BOMTreeView.  node_data is the dict item -> BOMNode as the sequence of  *)
(* its entries in insertion order; an item is its index.  Each entry also  *)
(* keeps the item's parent (0 for a top-level item) and its child items,   *)
(* among them the text-only "Loading..." dummy.                            *)
(***************************************************************************)
BOMChild(i) == [text |-> "item", ref |-> i]
BOMDummy == [text |-> "Loading...", ref |-> 0]

\* the dummy child for the expand arrow of an assembly that is not loaded
WithDummy(node) == IF is_assembly(node) /\ ~node.is_loaded THEN <<BOMDummy>> ELSE <<>>

add_assembly(nd, node) ==
    Append(nd, [node |-> node, parent |-> 0, children |-> WithDummy(node)])

\* a variant of lines 113-114 that flips the flag
ToggleLoaded(node) == [node EXCEPT !.is_loaded = ~@]

\* add_parts_to_assembly, lines 113-114
MarkLoaded(node) == [node EXCEPT !.is_loaded = TRUE]

add_parts_to_assembly(nd, parent_item, parts) ==
    LET old == nd[parent_item].children
        kept == IF old # <<>> /\ Head(old) = BOMDummy THEN Tail(old) ELSE old
        n == Len(nd)
    IN [i \in 1..(n + Len(parts)) |->
          IF i > n
          THEN [node |-> parts[i - n], parent |-> parent_item,
                children |-> WithDummy(parts[i - n])]
          ELSE IF i = parent_item
          THEN [nd[i] EXCEPT !.children = kept \o [k \in 1..Len(parts) |-> BOMChild(n + k)],
                             !.node = MarkLoaded(@)]
          ELSE nd[i]]

\* _find_item_by_lot_id: the first item of node_data with that lot id (0 = None)
find_item_by_lot_id(nd, lot_id) ==
    LET found == {i \in 1..Len(nd) : nd[i].node.lot_id = lot_id}
    IN IF found = {} THEN 0 ELSE CHOOSE i \in found : \A j \in found : i <= j

RECURSIVE add_children_recursive(_, _, _, _)
add_children_recursive(nd, parent_item, all_nodes, parent_lot_id) ==
    LET children == SelectSeq(all_nodes, LAMBDA n : n.base_lot_id = parent_lot_id)
        RECURSIVE walk(_, _)
        walk(t, i) ==
            IF i > Len(children) THEN t
            ELSE walk(IF is_assembly(children[i])
                      THEN add_children_recursive(t, t[parent_item].children[i].ref,
                                                  all_nodes, children[i].lot_id)
                      ELSE t,
                      i + 1)
    IN IF children = <<>> THEN nd
       ELSE walk(add_parts_to_assembly(nd, parent_item, children), 1)

\* _on_hierarchy_loaded, lines 357-360: the tree rebuilt from the node list.
\* (The BOMNode objects of `nodes` are shared by the items they are added
\* to; the copies kept here end with the same flags.)
hierarchy_tree(nodes) ==
    LET assemblies == SelectSeq(nodes, LAMBDA n : n.depth = 0)
        RECURSIVE walk(_, _)
        walk(t, i) ==
            IF i > Len(assemblies) THEN t
            ELSE LET with == add_assembly(t, assemblies[i])
                 IN walk(add_children_recursive(with, Len(with), nodes,
                                                assemblies[i].lot_id),
                         i + 1)
    IN walk(<<>>, 1)

(***************************************************************************)
(* EngineeringModuleWidget.  Every asynchronous call creates a QThread and *)
(* a DatabaseWorker and stores them in self.worker_thread / self.worker.   *)
(* A worker is identified by an id of WorkerIds, free again after its       *)
(* cleanup.  Its record keeps the                                          *)
(* operation and keyword arguments, the parent_item attribute (0 when the  *)
(* attribute is not set), whether clear_tree() has deleted that item       *)
(* since, the item the user expanded (`item`, kept for observation only),  *)
(* the phase of its thread and, once run, its result.                      *)
(* The worker's finished/error signal is emitted in the worker thread and  *)
(* the QThread's finished signal in that thread too, so their slots run    *)
(* later in the GUI thread, in the order the signals were queued.          *)
(***************************************************************************)
DatabaseWorker(operation, job, lot_id, item, parent_item) ==
    [operation |-> operation, job_number |-> job, lot_id |-> lot_id, item |-> item,
     parent_item |-> parent_item, parent_deleted |-> FALSE, phase |-> "running",
     result |-> Returned(<<>>)]

\* The workers that can exist at a time.
WorkerIds == {1, 2}

\* the id of the next worker
NewWorker(ws) == CHOOSE w \in WorkerIds \ DOMAIN ws : \A v \in WorkerIds \ DOMAIN ws : w <= v

\* clear_tree() deletes the items the workers' parent_item attributes refer to
ItemsDeleted(ws) ==
    [w \in DOMAIN ws |-> IF ws[w].parent_item # 0
                         THEN [ws[w] EXCEPT !.parent_deleted = TRUE] ELSE ws[w]]

Signal(kind, w) == [kind |-> kind, w |-> w]

InitBOM ==
    /\ widget = "BOMTreeView"
    /\ detailed_view = FALSE
    /\ wo_db = [name |-> "none"]
    /\ items = <<>>
    /\ last_call = NoCall
    /\ hierarchy = NoHierarchy
    /\ service_call = NoServiceCall
    /\ InitApp
    /\ current_job_number = ""
    /\ node_data = <<>>
    /\ tree_epoch = 0
    /\ workers = <<>>
    /\ worker = 0
    /\ worker_thread = 0
    /\ event_queue = <<>>
    /\ expand_all_enabled = FALSE
    /\ aborted = FALSE

\* A user action that starts n workers is accepted while WorkerIds has ids
\* for them and for the get_job_info worker of every search still under way
\* (a search of a job without work orders starts none).
MayStart(n) ==
    LET searching == {w \in DOMAIN workers :
                         /\ workers[w].operation = "get_bom_assemblies"
                         /\ WORK_ORDER[workers[w].job_number] # <<>>
                         /\ workers[w].phase \in {"running", "emitted"}}
    IN Cardinality(DOMAIN workers) + Cardinality(searching) + n <= Cardinality(WorkerIds)

\* _on_search_job
on_search_job(job_number) ==
    /\ widget = "BOMTreeView" /\ ~aborted
    /\ MayStart(IF WORK_ORDER[job_number] # <<>> THEN 2 ELSE 1)
    /\ current_job_number' = job_number
    /\ node_data' = <<>>
    /\ tree_epoch' = 1 - tree_epoch
    /\ expand_all_enabled' = FALSE
    /\ workers' = NewWorker(workers) :>
            DatabaseWorker("get_bom_assemblies", job_number, "", 0, 0)
            @@ ItemsDeleted(workers)
    /\ worker' = NewWorker(workers)
    /\ worker_thread' = NewWorker(workers)
    /\ UNCHANGED <<event_queue, aborted, widget>>
    /\ UNCHANGED woVars
    /\ UNCHANGED appVars

\* BOMTreeView._on_item_expanded, and _on_load_children which the
\* load_children signal calls directly.
BOMTreeView_on_item_expanded(item) ==
    /\ widget = "BOMTreeView" /\ ~aborted
    /\ item \in 1..Len(node_data)
    /\ node_data[item].children # <<>>
    /\ LET node == node_data[item].node
           parent_item == find_item_by_lot_id(node_data, node.lot_id)
       IN IF node.is_loaded \/ ~is_assembly(node)
          THEN UNCHANGED bomVars
          ELSE /\ MayStart(1)
               /\ Len(node_data) < MaxItems
               /\ workers' = NewWorker(workers) :>
                      DatabaseWorker("get_assembly_parts", node.job_number, node.lot_id,
                                     item, parent_item)
                      @@ workers
               /\ worker' = NewWorker(workers)
               /\ worker_thread' = NewWorker(workers)
               /\ UNCHANGED <<current_job_number, node_data, tree_epoch, event_queue,
                              expand_all_enabled, aborted>>
    /\ UNCHANGED widget
    /\ UNCHANGED woVars
    /\ UNCHANGED appVars

\* _on_expand_all (the button is enabled once assemblies were loaded)
on_expand_all ==
    /\ widget = "BOMTreeView" /\ ~aborted /\ MayStart(1)
    /\ expand_all_enabled
    /\ current_job_number # ""
    /\ workers' = NewWorker(workers) :>
            DatabaseWorker("get_bom_hierarchy", current_job_number, "", 0, 0)
            @@ workers
    /\ worker' = NewWorker(workers)
    /\ worker_thread' = NewWorker(workers)
    /\ UNCHANGED <<current_job_number, node_data, tree_epoch, event_queue,
                   expand_all_enabled, aborted, widget>>
    /\ UNCHANGED woVars
    /\ UNCHANGED appVars

\* DatabaseWorker.run in the worker's thread: call the service method and
\* emit finished(result), or error(str(e)) for any exception.
DatabaseWorker_run(w, fault) ==
    /\ widget = "BOMTreeView" /\ ~aborted
    /\ w \in DOMAIN workers
    /\ workers[w].phase = "running"
    /\ LET W == workers[w]
           result ==
               CASE W.operation = "get_bom_assemblies" -> get_bom_assemblies(W.job_number, fault)
                 [] W.operation = "get_job_info" -> get_job_info(W.job_number, fault)
                 [] W.operation = "get_assembly_parts" ->
                        get_assembly_parts(W.job_number, W.lot_id, fault)
                 [] OTHER -> get_bom_hierarchy(W.job_number, fault)
       IN /\ workers' = [workers EXCEPT ![w].phase = "emitted", ![w].result = result]
          /\ event_queue' = Append(event_queue,
                 Signal(IF result.raised = "none" THEN "finished" ELSE "error", w))
    /\ UNCHANGED <<current_job_number, node_data, tree_epoch, worker,
                   worker_thread, expand_all_enabled, aborted, widget>>
    /\ UNCHANGED woVars
    /\ UNCHANGED appVars

\* What a worker's error signal carries (DatabaseWorker.run: error.emit(str(e))):
\* the text of the exception and nothing else.
error_emitted(e) == [message |-> <<e>>]

\* The GUI thread takes the next queued signal of a worker: the slot connected
\* to it runs, then worker_thread.quit, after which the thread's own finished
\* signal is queued.
NextSignal(kind, operations) ==
    /\ widget = "BOMTreeView" /\ ~aborted
    /\ event_queue # <<>>
    /\ Head(event_queue).kind = kind
    /\ workers[Head(event_queue).w].operation \in operations
    /\ event_queue' = Tail(event_queue) \o <<Signal("thread_finished", Head(event_queue).w)>>

Quit(ws) == [ws EXCEPT ![Head(event_queue).w].phase = "quit"]

RECURSIVE AddAssemblies(_, _)
\* _on_assemblies_loaded, lines 180-181
AddAssemblies(nd, assemblies) ==
    IF assemblies = <<>> THEN nd
    ELSE AddAssemblies(add_assembly(nd, Head(assemblies)), Tail(assemblies))

\* _on_assemblies_loaded, with _load_job_info
on_assemblies_loaded ==
    /\ NextSignal("finished", {"get_bom_assemblies"})
    /\ LET assemblies == workers[Head(event_queue).w].result.rows
       IN IF assemblies # <<>>
          THEN /\ IF current_job_number # ""
                  THEN /\ workers' = NewWorker(workers) :>
                              DatabaseWorker("get_job_info", current_job_number, "", 0, 0)
                              @@ Quit(workers)
                       /\ worker' = NewWorker(workers)
                       /\ worker_thread' = NewWorker(workers)
                  ELSE /\ workers' = Quit(workers)
                       /\ UNCHANGED <<worker, worker_thread>>
               /\ node_data' = AddAssemblies(node_data, assemblies)
               /\ expand_all_enabled' = TRUE
               /\ UNCHANGED tree_epoch
          ELSE /\ node_data' = <<>>
               /\ tree_epoch' = 1 - tree_epoch
               /\ workers' = Quit(ItemsDeleted(workers))
               /\ UNCHANGED <<worker, worker_thread, expand_all_enabled>>
    /\ UNCHANGED <<current_job_number, aborted, widget>>
    /\ UNCHANGED woVars
    /\ UNCHANGED appVars

\* _on_parts_loaded.  self.worker is the worker started last, or None after a
\* cleanup; only a get_assembly_parts worker has the parent_item attribute.
\* A parent_item of a tree that clear_tree() has emptied since is a deleted
\* item: nothing is attached to the present tree.
on_parts_loaded ==
    /\ NextSignal("finished", {"get_assembly_parts"})
    /\ LET parts == workers[Head(event_queue).w].result.rows
       IN IF /\ worker # 0
             /\ workers[worker].operation = "get_assembly_parts"
             /\ ~workers[worker].parent_deleted
          THEN node_data' = add_parts_to_assembly(node_data, workers[worker].parent_item, parts)
          ELSE UNCHANGED node_data
    /\ workers' = Quit(workers)
    /\ UNCHANGED <<current_job_number, tree_epoch, worker, worker_thread,
                   expand_all_enabled, aborted, widget>>
    /\ UNCHANGED woVars
    /\ UNCHANGED appVars

\* _on_hierarchy_loaded
on_hierarchy_loaded ==
    /\ NextSignal("finished", {"get_bom_hierarchy"})
    /\ node_data' = hierarchy_tree(workers[Head(event_queue).w].result.rows)
    /\ tree_epoch' = 1 - tree_epoch
    /\ workers' = Quit(ItemsDeleted(workers))
    /\ UNCHANGED <<current_job_number, worker, worker_thread,
                   expand_all_enabled, aborted, widget>>
    /\ UNCHANGED woVars
    /\ UNCHANGED appVars

\* _on_job_info_loaded sets the header label only.
on_job_info_loaded ==
    /\ NextSignal("finished", {"get_job_info"})
    /\ workers' = Quit(workers)
    /\ UNCHANGED <<current_job_number, node_data, tree_epoch, worker,
                   worker_thread, expand_all_enabled, aborted, widget>>
    /\ UNCHANGED woVars
    /\ UNCHANGED appVars

\* The error slots: _on_search_error and _on_hierarchy_error show a dialog,
\* the lambdas of _load_job_info and _on_load_children log the message.
on_worker_error ==
    /\ NextSignal("error", {"get_bom_assemblies", "get_job_info", "get_assembly_parts",
                            "get_bom_hierarchy"})
    /\ workers' = Quit(workers)
    /\ UNCHANGED <<current_job_number, node_data, tree_epoch, worker,
                   worker_thread, expand_all_enabled, aborted, widget>>
    /\ UNCHANGED woVars
    /\ UNCHANGED appVars

\* cleanup_worker_thread, the slot of every QThread's finished signal
cleanup_worker_thread ==
    /\ widget = "BOMTreeView" /\ ~aborted
    /\ event_queue # <<>>
    /\ Head(event_queue).kind = "thread_finished"
    /\ event_queue' = Tail(event_queue)
    /\ worker_thread' = 0
    /\ worker' = 0
    /\ workers' = [w \in DOMAIN workers \ {Head(event_queue).w} |-> workers[w]]
    /\ UNCHANGED <<current_job_number, node_data, tree_epoch,
                   expand_all_enabled, aborted, widget>>
    /\ UNCHANGED woVars
    /\ UNCHANGED appVars

\* Assigning self.worker_thread drops the last reference to the QThread it
\* held.  When that thread is still running, destroying it is an error Qt
\* answers by terminating the process; whether the object is destroyed then
\* is not decided by this code, so both outcomes are possible.
qthread_destroyed_while_running ==
    /\ widget = "BOMTreeView" /\ ~aborted
    /\ \E w \in DOMAIN workers :
          w # worker_thread /\ workers[w].phase \in {"running", "emitted"}
    /\ aborted' = TRUE
    /\ UNCHANGED <<current_job_number, node_data, tree_epoch, workers, worker,
                   worker_thread, event_queue, expand_all_enabled, widget>>
    /\ UNCHANGED woVars
    /\ UNCHANGED appVars

NextBOM ==
    \/ \E job_number \in Jobs : on_search_job(job_number)
    \/ \E item \in 1..Len(node_data) : BOMTreeView_on_item_expanded(item)
    \/ on_expand_all
    \/ \E w \in DOMAIN workers, fault \in BOOLEAN : DatabaseWorker_run(w, fault)
    \/ on_assemblies_loaded
    \/ on_parts_loaded
    \/ on_hierarchy_loaded
    \/ on_job_info_loaded
    \/ on_worker_error
    \/ cleanup_worker_thread
    \/ qthread_destroyed_while_running

\* the job numbers and lot ids callers pass to BOMService: those of the data,
\* the empty text and a job number of 21 characters
LongJobNumber == "XXXXXXXXXXXXXXXXXXXXX"
JobNumberInputs == Jobs \cup {"", LongJobNumber}
LotIdInputs == {"", "00", "10"}

\* BOMService.get_bom_assemblies called directly
call_get_bom_assemblies(job_number, fault) ==
    /\ widget = "WorkOrderService"
    /\ LET result == get_bom_assemblies(job_number, fault)
       IN service_call' = [operation |-> "get_bom_assemblies", job_number |-> job_number,
                           lot_id |-> "", sub_id |-> "", result |-> result,
                           queries |-> queries_issued(result)]
    /\ hierarchy' = NoHierarchy
    /\ UNCHANGED <<widget, detailed_view, wo_db, items, last_call>>
    /\ UNCHANGED bomVars
    /\ UNCHANGED appVars

\* BOMService.get_assembly_parts called directly
call_get_assembly_parts(job_number, lot_id, fault) ==
    /\ widget = "WorkOrderService"
    /\ LET result == get_assembly_parts(job_number, lot_id, fault)
       IN service_call' = [operation |-> "get_assembly_parts", job_number |-> job_number,
                           lot_id |-> lot_id, sub_id |-> "", result |-> result,
                           queries |-> queries_issued(result)]
    /\ hierarchy' = NoHierarchy
    /\ UNCHANGED <<widget, detailed_view, wo_db, items, last_call>>
    /\ UNCHANGED bomVars
    /\ UNCHANGED appVars

NextService ==
    \/ \E sub_id \in SubIds, given \in BOOLEAN, value \in MaxDepthInputs, fault \in BOOLEAN :
          call_get_work_order_hierarchy(sub_id, given, value, fault)
    \/ \E sub_id \in SubIds \cup {""}, fault \in BOOLEAN :
          call_get_requirements_by_sub_id(sub_id, fault)
    \/ \E job_number \in JobNumberInputs, fault \in BOOLEAN :
          call_get_bom_assemblies(job_number, fault)
    \/ \E job_number \in JobNumberInputs, lot_id \in LotIdInputs, fault \in BOOLEAN :
          call_get_assembly_parts(job_number, lot_id, fault)

\* the state of the components a behaviour does not drive
OthersIdle ==
    /\ detailed_view = FALSE
    /\ wo_db = CHOOSE d \in WODataSets : d.name = "tree"
    /\ items = <<>>
    /\ last_call = NoCall
    /\ hierarchy = NoHierarchy
    /\ service_call = NoServiceCall
    /\ current_job_number = ""
    /\ node_data = <<>>
    /\ tree_epoch = 0
    /\ workers = <<>>
    /\ worker = 0
    /\ worker_thread = 0
    /\ event_queue = <<>>
    /\ expand_all_enabled = FALSE
    /\ aborted = FALSE

\* MainWindow after __init__: the panel selected row 0 and the stack shows
\* the first widget added to it
InitMainWindow == widget = "MainWindow" /\ OthersIdle /\ InitApp

\* A click on a row of the navigation panel
click_row(row) ==
    /\ widget = "MainWindow"
    /\ requested_index' = row
    /\ current_row' = row
    /\ current_index' = setCurrentIndex(current_index, current_row, row)
    /\ UNCHANGED <<connection, connections, db_threads, widget>>
    /\ UNCHANGED woVars
    /\ UNCHANGED bomVars

\* set_module_index called by a shortcut (Ctrl+1..3) or by any other caller
call_set_module_index(index) ==
    /\ widget = "MainWindow"
    /\ requested_index' = index
    /\ current_row' = set_module_index(current_row, index)
    /\ current_index' = setCurrentIndex(current_index, current_row,
                                        set_module_index(current_row, index))
    /\ UNCHANGED <<connection, connections, db_threads, widget>>
    /\ UNCHANGED woVars
    /\ UNCHANGED bomVars

\* on_switch_to_inventory: set_module_index(1), then module_stack.setCurrentIndex(1)
on_switch_to_inventory ==
    /\ widget = "MainWindow"
    /\ requested_index' = 1
    /\ current_row' = set_module_index(current_row, 1)
    /\ current_index' = 1
    /\ UNCHANGED <<connection, connections, db_threads, widget>>
    /\ UNCHANGED woVars
    /\ UNCHANGED bomVars

NextMainWindow ==
    \/ \E row \in 0..(ModuleCount - 1) : click_row(row)
    \/ \E index \in (0 - 1)..ModuleCount : call_set_module_index(index)
    \/ on_switch_to_inventory

\* DatabaseConnection after __init__, used by the threads of DbThreads
InitDatabaseConnection == widget = "DatabaseConnection" /\ OthersIdle /\ InitApp

\* the step of thread t from program point `from` that leaves the threads as `ts`
DbStep(t, from, ts) ==
    /\ widget = "DatabaseConnection"
    /\ db_threads[t].pc = from
    /\ db_threads' = ts
    /\ UNCHANGED <<current_row, current_index, requested_index, widget>>
    /\ UNCHANGED woVars
    /\ UNCHANGED bomVars

\* get_cursor, line 110: connect() is called when there is no live connection
get_cursor(t) ==
    /\ DbStep(t, "idle", [db_threads EXCEPT ![t].pc =
                             IF connection = 0 \/ ~is_connection_alive
                             THEN "connect" ELSE "cursor"])
    /\ UNCHANGED <<connection, connections>>

\* connect, lines 37-38: a live connection is returned as it is
connect(t) ==
    /\ DbStep(t, "connect", [db_threads EXCEPT ![t].pc =
                                IF connection # 0 /\ is_connection_alive
                                THEN "cursor" ELSE "pyodbc.connect"])
    /\ UNCHANGED <<connection, connections>>

\* connect, the call pyodbc.connect(...) of line 45: a new connection is
\* open when it returns; when every attempt fails the error is raised
pyodbc_connect(t, ok) ==
    /\ Len(connections) < MaxConnections
    /\ DbStep(t, "pyodbc.connect",
              [db_threads EXCEPT ![t] = IF ok THEN [@ EXCEPT !.pc = "assign",
                                                            !.new = Len(connections) + 1]
                                        ELSE [@ EXCEPT !.pc = "idle"]])
    /\ connections' = IF ok THEN Append(connections, "alive") ELSE connections
    /\ UNCHANGED connection

\* connect, line 45: the result is stored in self._connection
assign_connection(t) ==
    /\ DbStep(t, "assign", [db_threads EXCEPT ![t].pc = "cursor"])
    /\ connection' = db_threads[t].new
    /\ UNCHANGED connections

\* get_cursor, line 113: return self._connection.cursor()
return_cursor(t) ==
    /\ DbStep(t, "cursor", [db_threads EXCEPT ![t].pc = "idle"])
    /\ UNCHANGED <<connection, connections>>

\* The server or the network drops a connection.
connection_lost(c) ==
    /\ widget = "DatabaseConnection"
    /\ c \in DOMAIN connections /\ connections[c] = "alive"
    /\ connections' = [connections EXCEPT ![c] = "dead"]
    /\ UNCHANGED <<current_row, current_index, requested_index, connection, db_threads,
                   widget>>
    /\ UNCHANGED woVars
    /\ UNCHANGED bomVars

\* close (closeEvent, __exit__): the current connection is closed and forgotten
close ==
    /\ widget = "DatabaseConnection"
    /\ connection # 0
    /\ connections' = [connections EXCEPT ![connection] = "closed"]
    /\ connection' = 0
    /\ UNCHANGED <<current_row, current_index, requested_index, db_threads, widget>>
    /\ UNCHANGED woVars
    /\ UNCHANGED bomVars

NextDatabaseConnection ==
    \/ \E t \in DbThreads : get_cursor(t)
    \/ \E t \in DbThreads : connect(t)
    \/ \E t \in DbThreads, ok \in BOOLEAN : pyodbc_connect(t, ok)
    \/ \E t \in DbThreads : assign_connection(t)
    \/ \E t \in DbThreads : return_cursor(t)
    \/ \E c \in 1..MaxConnections : connection_lost(c)
    \/ close

Init == InitWO \/ InitBOM \/ InitService \/ InitMainWindow \/ InitDatabaseConnection
Next == NextWO \/ NextBOM \/ NextService \/ NextMainWindow \/ NextDatabaseConnection
Spec == Init /\ [][Next]_vars

(***************************************************************************)
(* Properties                                                              *)
(***************************************************************************)
WO == widget = "WorkOrderTreeWidget"
BOM == widget = "BOMTreeView"

\* the step replaces the work-order tree by a new one
TreeReloaded == last_call'.op = "load_work_order"

\* C1: Expanding a work-order item whose children are loaded makes no service
\* call and changes nothing; once an item's children are loaded, its children
\* and the number of loads made for it stay as they are while it is in the
\* tree, so a second expansion shows the same children without a query.
ExpandLoadedIsNoOp ==
    [][WO /\ ~TreeReloaded =>
         /\ \A p \in DOMAIN items :
               items[p].children_loaded => p \in DOMAIN items' /\ items'[p] = items[p]
         /\ last_call'.loaded_before => last_call'.calls = 0 /\ items' = items]_vars

\* A loaded item with children has been expanded again.
ExpandedLoadedItemAgain ==
    /\ WO
    /\ last_call.op = "expand"
    /\ last_call.loaded_before
    /\ last_call.calls = 0
    /\ DataChildren(items[last_call.node]) # <<>>

\* the GUI thread takes the error signal of a worker in this step
ErrorSignalTaken ==
    /\ BOM
    /\ event_queue # <<>>
    /\ Head(event_queue).kind = "error"
    /\ event_queue' = Tail(event_queue) \o <<Signal("thread_finished", Head(event_queue).w)>>

\* C3: A failed children query leaves the item's children-loaded flag false
\* and the item expandable, every expansion of an item that is not loaded
\* calls the service again, and the loads made for an item change only in a
\* step in which the user expands that item (or loads the work order); for the
\* BOM tree, the error signal of a worker changes no node and starts no worker.
FailedLoadIsRetriedByExpandOnly ==
    /\ [](WO /\ last_call.raised # "none" =>
            /\ ~items[last_call.node].children_loaded
            /\ Expandable(items[last_call.node]))
    /\ [](WO /\ last_call.op = "expand" /\ ~last_call.loaded_before =>
            last_call.calls >= 1)
    /\ [][WO /\ ~TreeReloaded =>
            \A p \in DOMAIN items :
                items'[p].issued # items[p].issued =>
                    /\ last_call'.op = "expand" /\ last_call'.node = p
                    /\ items'[p].issued = items[p].issued + 1]_vars
    /\ [][ErrorSignalTaken =>
            /\ node_data' = node_data
            /\ DOMAIN workers' = DOMAIN workers
            /\ worker' = worker]_vars

\* An item whose load failed has been expanded again, and the query failed
\* again.
FailedTwice ==
    /\ WO
    /\ last_call.op = "expand"
    /\ last_call.raised = "WorkOrderServiceError"
    /\ last_call.calls = 1
    /\ items[last_call.node].issued = 2

\* C4: An item never has more than one error child, and the item of a failed
\* load has exactly one.
SingleErrorChild ==
    WO =>
      /\ \A p \in DOMAIN items : Len(ErrorChildren(items[p])) <= 1
      /\ last_call.raised # "none" => Len(ErrorChildren(items[last_call.node])) = 1

\* the sub-work-order rows the children query of item p returns
ResultOf(p) == SubWorkOrders(wo_db.requirements[items[p].sub_id])

\* C5: Whenever an item's children-loaded flag is true, its children are the
\* items of the loader's result and nothing else: no "Loading..." placeholder
\* and no error child.  (In the detailed view a load succeeds only with an
\* empty result.)
LoadedChildrenAreTheResult ==
    WO =>
      \A p \in DOMAIN items :
         items[p].children_loaded =>
            /\ items[p].children = DataChildren(items[p])
            /\ Len(items[p].children) = IF detailed_view THEN 0 ELSE Len(ResultOf(p))

\* C6: In every state a work-order item has either no child items or one item
\* for every sub-work-order row of its query's result, in result order, and
\* then its children-loaded flag is true; no "Loading..." placeholder is left.
ChildrenAreWholeBatches ==
    WO =>
      \A p \in DOMAIN items :
         LET kids == DataChildren(items[p])
         IN /\ LoadingItem \notin Range(items[p].children)
            /\ kids # <<>> =>
                  /\ items[p].children_loaded
                  /\ Len(kids) = Len(ResultOf(p))
                  /\ \A i \in 1..Len(kids) :
                        /\ kids[i].ref = Append(p, i)
                        /\ items[Append(p, i)].sub_id = ResultOf(p)[i].subord_wo_sub_id

\* An item got its two sub-work-order items in a load during which the probe
\* query of the second one failed (sub id "10" has no sub-work-orders, so its
\* indicator shows only after a failed probe).
BatchAddedDespiteProbeFailure ==
    /\ WO
    /\ \E p \in DOMAIN items :
          /\ Len(DataChildren(items[p])) = 2
          /\ items[Append(p, 2)].sub_id = "10"
          /\ items[Append(p, 2)].indicator

\* C7: The children-loaded flag of an item that stays in its tree never goes
\* from true to false, in the work-order tree and in the BOM tree.
LoadedFlagIsMonotonic ==
    /\ [][WO /\ ~TreeReloaded =>
            \A p \in DOMAIN items :
                items[p].children_loaded =>
                    p \in DOMAIN items' /\ items'[p].children_loaded]_vars
    /\ [][BOM /\ tree_epoch' = tree_epoch =>
            \A i \in 1..Len(node_data) :
                node_data[i].node.is_loaded =>
                    i <= Len(node_data') /\ node_data'[i].node.is_loaded]_vars

\* Parts were attached to a BOM assembly a second time, and it is still
\* marked loaded.
LoadedAssemblyAttachedTwice ==
    /\ BOM
    /\ \E i \in 1..Len(node_data) :
          /\ is_assembly(node_data[i].node)
          /\ node_data[i].node.is_loaded
          /\ Len(node_data[i].children) = 4

\* the workers of get_assembly_parts whose result has not been taken yet and
\* whose tree still exists
LoadsInFlight ==
    {w \in DOMAIN workers :
        /\ workers[w].operation = "get_assembly_parts"
        /\ workers[w].phase \in {"running", "emitted"}
        /\ ~workers[w].parent_deleted}

\* C2: No two loads of the same BOM item are in flight at the same time: a
\* second expansion of an item whose load is under way starts no query.
NoDuplicateLoadInFlight ==
    BOM => \A v, w \in LoadsInFlight : workers[v].item = workers[w].item => v = w

\* the GUI thread takes the finished signal of a worker of `operation` in this
\* step
FinishedSignalTaken(operation) ==
    /\ BOM
    /\ event_queue # <<>>
    /\ Head(event_queue).kind = "finished"
    /\ workers[Head(event_queue).w].operation = operation
    /\ event_queue' = Tail(event_queue) \o <<Signal("thread_finished", Head(event_queue).w)>>

\* The shape of the BOM tree: every item's lot id and sub id and the shapes of
\* its children, in order, a "Loading..." dummy included.
RECURSIVE ShapeOf(_, _)
ShapeOf(nd, i) ==
    [lot_id |-> nd[i].node.lot_id, sub_id |-> nd[i].node.sub_id,
     children |-> [k \in 1..Len(nd[i].children) |->
                     IF nd[i].children[k].text = "item"
                     THEN ShapeOf(nd, nd[i].children[k].ref)
                     ELSE [lot_id |-> nd[i].children[k].text, sub_id |-> "",
                           children |-> <<>>]]]

TreeShape(nd) ==
    LET top == SelectSeq([i \in 1..Len(nd) |-> i], LAMBDA i : nd[i].parent = 0)
    IN [k \in 1..Len(top) |-> ShapeOf(nd, top[k])]

RECURSIVE expand_every_item(_, _)
\* The tree after the user has expanded every item once, one after the
\* other in item order, each load finishing before the next expansion:
\* BOMTreeView._on_item_expanded, _on_load_children and _on_parts_loaded
\* applied to item i and to the items after it.
expand_every_item(nd, i) ==
    IF i > Len(nd) THEN nd
    ELSE LET node == nd[i].node
         IN IF node.is_loaded \/ ~is_assembly(node)
            THEN expand_every_item(nd, i + 1)
            ELSE expand_every_item(
                     add_parts_to_assembly(
                         nd, find_item_by_lot_id(nd, node.lot_id),
                         get_assembly_parts(node.job_number, node.lot_id, FALSE).rows),
                     i + 1)

\* the tree of a job after its search and the expansion of every item
LazilyExpandedTree(job) ==
    expand_every_item(AddAssemblies(<<>>, get_bom_assemblies(job, FALSE).rows), 1)

\* C8: The tree that Expand All builds from get_bom_hierarchy has the shape
\* of the tree the user gets by expanding every item of the job one at a
\* time.
EagerBuildEqualsLazyExpansion ==
    [][FinishedSignalTaken("get_bom_hierarchy") =>
          TreeShape(node_data') =
              TreeShape(LazilyExpandedTree(workers[Head(event_queue).w].job_number))]_vars

\* C9: The parts of every load are attached to the item they were requested
\* for: every child item of an item is a part of that item's lot.
PartsAttachedToRequestedItem ==
    BOM =>
      \A i \in 1..Len(node_data) :
         \A k \in 1..Len(node_data[i].children) :
            node_data[i].children[k].text = "item" =>
               node_data[node_data[i].children[k].ref].node.base_lot_id
                   = node_data[i].node.lot_id

\* C10: When the parts of an expansion are attached, every item other than
\* the expanded one is left as it was.
OnlyExpandedOccurrenceChanges ==
    [][/\ FinishedSignalTaken("get_assembly_parts")
       /\ ~workers[Head(event_queue).w].parent_deleted
       => \A i \in 1..Len(node_data) :
             i # workers[Head(event_queue).w].item => node_data'[i] = node_data[i]]_vars

\* C11: A full-hierarchy build that was abandoned because another job was
\* requested writes nothing into the tree: when the result of a
\* get_bom_hierarchy worker arrives after the current job has changed, the
\* tree is left as it is, and every node of the tree belongs to the current
\* job.
AbandonedBuildWritesNothing ==
    /\ [][FinishedSignalTaken("get_bom_hierarchy")
           /\ workers[Head(event_queue).w].job_number # current_job_number
           => node_data' = node_data]_vars
    /\ [](BOM => \A i \in 1..Len(node_data) :
                    node_data[i].node.job_number = current_job_number)

\* C12: Along every path from the root item to an item of the work-order tree
\* no work-order key occurs twice: no item has the sub id of one of its
\* ancestors.
NoKeyTwiceOnPath ==
    WO =>
      \A p \in DOMAIN items :
         \A n \in 0..(Len(p) - 1) :
            SubSeq(p, 1, n) \in DOMAIN items =>
               items[SubSeq(p, 1, n)].sub_id # items[p].sub_id

\* the places of `path` at which `key` occurs
Occurrences(path, key) ==
    {i \in 1..Len(path) : /\ i + Len(key) - 1 <= Len(path)
                          /\ SubSeq(path, i, i + Len(key) - 1) = key}

\* C13: A full-hierarchy build on cyclic data ends normally with every work
\* order at most once on each path: no row of get_work_order_hierarchy has a
\* key twice in its path, and no get_bom_hierarchy call ends in the
\* interpreter's RecursionError.
BuildOnCyclicDataTerminates ==
    /\ widget = "WorkOrderService" =>
          \A i \in 1..Len(hierarchy.rows) :
             \A sub_id \in SubIds :
                Cardinality(Occurrences(hierarchy.rows[i].path, KeyText(sub_id))) <= 1
    /\ BOM =>
          \A w \in DOMAIN workers :
             workers[w].operation = "get_bom_hierarchy" =>
                workers[w].result.raised # "RecursionError"

\* the last hierarchy build stopped at a row that has further work orders
\* below it
BranchCutOff ==
    /\ widget = "WorkOrderService"
    /\ \E i \in 1..Len(hierarchy.rows) :
          /\ hierarchy.rows[i].depth = hierarchy.max_depth
          /\ RecursiveMember(wo_db, hierarchy.rows[i], hierarchy.max_depth + 1) # <<>>

ReportsTruncated(result) == "truncated" \in DOMAIN result /\ result.truncated

\* C15: A hierarchy build that stopped a branch at max_depth although the
\* branch had further work orders returns normally and reports the
\* truncation in its result.
CutOffBuildReportsTruncated ==
    BranchCutOff =>
       /\ hierarchy.result.raised = "none"
       /\ ReportsTruncated(hierarchy.result)

\* the child items of BOM item i that show a node
BOMItemChildren(i) == SelectSeq(node_data[i].children, LAMBDA e : e.text = "item")

\* C16: The children of a node are the rows of its children query in the
\* order the query returned them: a work-order item's child items are the
\* sub-work-order rows of its result in result order, and the child items
\* of a BOM item, after a lazy expansion or the eager rebuild, are the rows
\* of get_assembly_parts for its lot in result order.
ChildrenInQueryOrder ==
    /\ WO =>
          \A p \in DOMAIN items :
             LET kids == DataChildren(items[p])
             IN kids # <<>> =>
                  [k \in 1..Len(kids) |-> items[kids[k].ref].sub_id]
                     = [k \in 1..Len(ResultOf(p)) |-> ResultOf(p)[k].subord_wo_sub_id]
    /\ BOM =>
          \A i \in 1..Len(node_data) :
             LET kids == BOMItemChildren(i)
                 rows == get_assembly_parts(node_data[i].node.job_number,
                                            node_data[i].node.lot_id, FALSE).rows
             IN kids # <<>> =>
                  [k \in 1..Len(kids) |-> node_data[kids[k].ref].node.sub_id]
                     = [k \in 1..Len(rows) |-> rows[k].sub_id]

\* C17: In the detailed view a work order whose load met no database error
\* shows an item for each of its operations, and the children of a loaded
\* operation item are the rows of get_operation_children, requirements and
\* child operations merged by piece number first and sequence second.
OperationChildrenAreMerged ==
    WO /\ detailed_view =>
      /\ \A p \in DOMAIN items :
            /\ items[p].node_type # "OPERATION"
            /\ p = last_call.node
            /\ last_call.raised # "WorkOrderServiceError"
            => Len(DataChildren(items[p])) = wo_db.operations[items[p].sub_id]
      /\ \A p \in DOMAIN items :
            items[p].node_type = "OPERATION" /\ items[p].children_loaded =>
               LET rows == get_operation_children(wo_db, items[p].sub_id)
               IN /\ Len(items[p].children) = Len(rows)
                  /\ \A k \in 1..(Len(rows) - 1) : ~SortOrderBefore(rows[k + 1], rows[k])

\* what an error object says about the parent whose load failed
CarriesParent(error, parent) == "parent" \in DOMAIN error /\ error.parent = parent
CarriesCause(error) == "cause" \in DOMAIN error
IsTyped(error) == "type" \in DOMAIN error

\* A failed item and an item loaded with no children look different.
FailedAndEmptyDiffer ==
    /\ WO /\ last_call.op = "expand" /\ last_call.raised = "WorkOrderServiceError" =>
          /\ ~items[last_call.node].children_loaded
          /\ ErrorChildren(items[last_call.node]) # <<>>
    /\ WO => \A p \in DOMAIN items :
          items[p].children_loaded => ErrorChildren(items[p]) = <<>>
    /\ BOM => \A w \in DOMAIN workers :
          /\ workers[w].operation = "get_assembly_parts"
          /\ workers[w].phase \in {"emitted", "quit"}
          /\ workers[w].result.raised # "none"
          /\ workers[w].parent_item \in 1..Len(node_data)
          /\ node_data[workers[w].parent_item].lot_id = workers[w].lot_id
          => node_data[workers[w].parent_item].children # <<>>

\* C18: A query failure during a load reaches the caller as a typed error that
\* carries the identity of the parent and the underlying cause, and a failed
\* item never looks like an item loaded with no children.
FailedLoadIsTypedError ==
    /\ FailedAndEmptyDiffer
    /\ WO /\ last_call.op = "expand" /\ last_call.raised = "WorkOrderServiceError" =>
          LET error == WorkOrderServiceError("pyodbc.Error")
          IN /\ IsTyped(error) /\ CarriesCause(error)
             /\ CarriesParent(error, items[last_call.node].sub_id)
    /\ BOM => \A w \in DOMAIN workers :
          workers[w].phase = "emitted" /\ workers[w].result.raised # "none" =>
             LET error == error_emitted(workers[w].result.raised)
             IN /\ IsTyped(error) /\ CarriesCause(error)
                /\ CarriesParent(error, workers[w].lot_id)

\* the rows the query behind an item's load matches
MatchesNoRows(p) ==
    IF detailed_view THEN wo_db.operations[items[p].sub_id] = 0
    ELSE wo_db.requirements[items[p].sub_id] = <<>>

\* an expanded assembly whose parts query matches no rows has no child left
EmptyAssemblyHasNoChildren ==
    BOM => \A i \in 1..Len(node_data) :
          /\ node_data[i].node.is_loaded
          /\ is_assembly(node_data[i].node)
          /\ get_assembly_parts(node_data[i].node.job_number,
                                node_data[i].node.lot_id, FALSE).rows = <<>>
          => node_data[i].children = <<>>

\* C19: A load whose query matches no rows raises no error and leaves the
\* expanded item loaded with no children at all: no error child, no
\* placeholder.
EmptyLoadIsLoadedNotError ==
    /\ WO /\ last_call.op \in {"expand", "load_work_order"}
          /\ last_call.calls > 0 /\ last_call.raised = "none"
          /\ MatchesNoRows(last_call.node) =>
             /\ items[last_call.node].children_loaded
             /\ items[last_call.node].children = <<>>
    /\ EmptyAssemblyHasNoChildren

\* the BOM half of C19 reached: an assembly without parts was expanded
EmptyAssemblyLoaded ==
    BOM /\ \E i \in 1..Len(node_data) :
        /\ node_data[i].node.is_loaded /\ is_assembly(node_data[i].node)
        /\ node_data[i].node.job_number = "7000"

\* C20: In the BOM tree a top-level item has depth 0 and every other item has
\* the depth of its parent plus 1, whether it was attached by a lazy
\* expansion or by the eager build.
DepthIsParentDepthPlusOne ==
    BOM => \A i \in 1..Len(node_data) :
        IF node_data[i].parent = 0 THEN node_data[i].node.depth = 0
        ELSE node_data[i].node.depth = node_data[node_data[i].parent].node.depth + 1

\* the (kind, colour) the classification table gives a BOM node
ClassificationTable(node) ==
    IF node.lot_id = "00" \/ row_has_children(node.job_number, node)
    THEN <<"assembly", "blue">>
    ELSE IF node.is_purchased THEN <<"purchased", "red">>
    ELSE <<"manufactured", "black">>

TopLevelLotAttachedAsPart ==
    BOM /\ \E i \in 1..Len(node_data) :
              node_data[i].parent # 0 /\ node_data[i].node.lot_id = "00"

\* the subordinate-work-order references of the rows of an item's query
References(p) ==
    LET rows == wo_db.requirements[items[p].sub_id]
    IN {rows[i].subord_wo_sub_id : i \in {j \in 1..Len(rows) : rows[j].subord_wo_sub_id # ""}}

\* C22: A requirement row becomes a sub-work-order item exactly when its
\* subordinate-work-order reference is non-empty: every item below the root is
\* a SUB_WORK_ORDER with a non-empty sub id, the children of a loaded item are
\* the rows with a reference, a row without one gets no item, and only
\* work-order and sub-work-order items are ever expanded.
RequirementClassifiedByReference ==
    WO =>
      /\ \A p \in DOMAIN items :
            /\ p # <<>> => items[p].node_type = "SUB_WORK_ORDER" /\ items[p].sub_id # ""
            /\ p # <<>> => items[p].sub_id \in References(SubSeq(p, 1, Len(p) - 1))
            /\ items[p].children_loaded /\ ~detailed_view =>
                  {items[e.ref].sub_id : e \in Range(DataChildren(items[p]))} = References(p)
      /\ last_call.op = "expand" =>
            items[last_call.node].node_type \in {"WORK_ORDER_ROOT", "SUB_WORK_ORDER"}

\* a work order with a plain requirement row among its rows is loaded
PlainRequirementLeftOut ==
    WO /\ \E p \in DOMAIN items :
        /\ items[p].children_loaded /\ DataChildren(items[p]) # <<>>
        /\ \E i \in 1..Len(wo_db.requirements[items[p].sub_id]) :
               wo_db.requirements[items[p].sub_id][i].subord_wo_sub_id = ""

\* a loader was called directly
ServiceCalled == widget = "WorkOrderService" /\ service_call.operation # "none"

\* the key fields the called loader takes
KeyFields ==
    CASE service_call.operation = "get_bom_assemblies" -> {service_call.job_number}
      [] service_call.operation = "get_assembly_parts" ->
            {service_call.job_number, service_call.lot_id}
      [] OTHER -> {service_call.sub_id}

\* the call was refused by validation and no query ran
RejectedBeforeQuery == service_call.result.raised = "ValueError" /\ service_call.queries = 0

\* C23: A loader called with an empty key field raises ValueError before any
\* query is issued.
EmptyKeyRejected == ServiceCalled /\ "" \in KeyFields => RejectedBeforeQuery

\* the job number length above which the tests expect a ValueError
MaxJobNumberLength == 20

\* C24: A loader called with a job number of more than 20 characters raises
\* ValueError before any query is issued.
OversizedKeyRejected ==
    ServiceCalled /\ service_call.operation \in {"get_bom_assemblies", "get_assembly_parts"}
                  /\ Len(service_call.job_number) > MaxJobNumberLength
       => RejectedBeforeQuery

\* C25: get_work_order_hierarchy runs with max_depth 10 when the caller gives
\* none, and a max_depth below 1 or above 50 is refused with ValueError before
\* any query is issued, so no build ever runs outside 1..50.
MaxDepthDefaultAndCeiling ==
    widget = "WorkOrderService" /\ hierarchy.sub_id # "" =>
      /\ ~hierarchy.given =>
            hierarchy.max_depth = 10 /\ hierarchy.result.raised # "ValueError"
      /\ hierarchy.max_depth < 1 \/ hierarchy.max_depth > 50 =>
            /\ hierarchy.result.raised = "ValueError"
            /\ hierarchy.queries = 0 /\ hierarchy.rows = <<>>
      /\ hierarchy.queries > 0 => hierarchy.max_depth \in 1..50

\* a build was asked for with a max_depth one above the ceiling
AskedAboveCeiling ==
    /\ widget = "WorkOrderService" /\ hierarchy.sub_id # ""
    /\ hierarchy.given /\ hierarchy.max_depth = MaxDepthCeiling + 1
    /\ hierarchy.result.raised = "ValueError"

\* an assembly is created unloaded, and what is created loaded has no children
CreatedUnloaded(node) ==
    /\ is_assembly(node) => ~node.is_loaded
    /\ node.is_loaded => ~row_has_children(node.job_number, node)

\* a worker ran its loader in this step
LoaderRan ==
    \E w \in DOMAIN workers \cap DOMAIN workers' :
        workers[w].phase = "running" /\ workers'[w].phase = "emitted"

\* C26: Every node a BOM loader returns is created unloaded when it is an
\* assembly, top-level or nested, and loaded only when it has no children; and
\* running a loader changes no flag of a node the tree already holds.
AssembliesStartUnloaded ==
    /\ [](BOM => \A w \in DOMAIN workers :
              workers[w].operation # "get_job_info" =>
                 \A k \in 1..Len(workers[w].result.rows) :
                    CreatedUnloaded(workers[w].result.rows[k]))
    /\ [](ServiceCalled /\ service_call.operation # "get_requirements_by_sub_id" =>
              \A k \in 1..Len(service_call.result.rows) :
                 CreatedUnloaded(service_call.result.rows[k]))
    /\ [][BOM /\ LoaderRan => node_data' = node_data]_vars

\* a loader returned a nested assembly while the tree holds a loaded assembly
\* and a part without children
NestedAssemblyReturned ==
    /\ BOM
    /\ \E w \in DOMAIN workers :
          /\ workers[w].operation = "get_assembly_parts"
          /\ workers[w].phase = "emitted"
          /\ \E k \in 1..Len(workers[w].result.rows) :
                /\ is_assembly(workers[w].result.rows[k])
                /\ workers[w].result.rows[k].lot_id # "00"
    /\ \E i \in 1..Len(node_data) :
          is_assembly(node_data[i].node) /\ node_data[i].node.is_loaded

\* the finished signal of thread w is handled by cleanup_worker_thread in this step
CleanupRuns(w) ==
    /\ event_queue # <<>>
    /\ Head(event_queue) = Signal("thread_finished", w)
    /\ event_queue' = Tail(event_queue)

\* the thread the module refers to is another one than w and still running
RefersToRunningThreadOtherThan(w) ==
    /\ worker_thread \in DOMAIN workers
    /\ worker_thread # w
    /\ workers[worker_thread].phase \in {"running", "emitted"}

\* C29: The cleanup that runs when an older thread finishes leaves the
\* module's references to a newer thread that is still running, and to its
\* worker, as they are.
CleanupKeepsNewerThread ==
    [][\A w \in WorkerIds :
          BOM /\ CleanupRuns(w) /\ RefersToRunningThreadOtherThan(w)
             => worker_thread' = worker_thread /\ worker' = worker]_vars

\* C27: The module the stack shows is always the row selected in the
\* navigation panel, one of 0, 1, 2 and 0 at the start, and a request to
\* select an index outside 0..2 changes neither.
StackMatchesNavigation ==
    /\ [](widget = "MainWindow" =>
             current_index = current_row /\ current_row \in 0..2)
    /\ [][widget = "MainWindow" /\ requested_index' \notin 0..2 =>
             current_row' = current_row /\ current_index' = current_index]_vars

\* an out-of-range index was requested while module 2 was shown
OutOfRangeRequested ==
    widget = "MainWindow" /\ requested_index \notin 0..2 /\ current_row = 2

\* the connections that are open and usable
AliveConnections == {c \in DOMAIN connections : connections[c] = "alive"}

\* C30: At most one underlying connection is open at a time: a new connection
\* is opened only when none is alive, and the connection the object holds is
\* replaced only after it was closed.
OneConnectionAtATime ==
    /\ [](widget = "DatabaseConnection" => Cardinality(AliveConnections) <= 1)
    /\ [][widget = "DatabaseConnection" /\ Len(connections') > Len(connections)
             => AliveConnections = {}]_vars
    /\ [][widget = "DatabaseConnection" /\ connection # 0 /\ connection' # connection
             => connections'[connection] = "closed"]_vars

\* the key is one of the keys joined by ' -> ' in the path
ExactAncestor(path, key) ==
    LET arrow == <<" ", "-", ">", " ">>
    IN Like(arrow \o path \o arrow, arrow \o key \o arrow)

\* C28: The hierarchy query leaves a referenced work order out only when its
\* exact key is already on the path: below every fetched row that is not at
\* max_depth, each sub-work-order whose key is no ancestor of the row has a
\* row of its own, also when its key text is contained in an ancestor's.
OnlyExactAncestorsLeftOut ==
    widget = "WorkOrderService" /\ hierarchy.sub_id # "" /\ hierarchy.result.raised = "none" =>
      \A i \in 1..Len(hierarchy.rows) :
         LET row == hierarchy.rows[i]
             reqs == wo_db.requirements[row.sub_id]
         IN row.depth < hierarchy.max_depth =>
              \A j \in 1..Len(reqs) :
                 /\ reqs[j].subord_wo_sub_id # ""
                 /\ ~ExactAncestor(row.path, KeyText(reqs[j].subord_wo_sub_id))
                 => \E k \in 1..Len(hierarchy.rows) :
                       hierarchy.rows[k].path =
                          row.path \o <<" ", "-", ">", " ">>
                                   \o KeyText(reqs[j].subord_wo_sub_id)

====
